---------------------------- MODULE Spec2Model ----------------------------
(***************************************************************************)
(* A model of calc_ww_fourbridge.py: the decomposition of a Gauss code     *)
(* into strands (find_strands), the crossing relation (find_crossings),    *)
(* the colouring closure (maximally_extend), the conflict counter          *)
(* (count_multicolored_crossings) and the search over seed triples (calc). *)
(*                                                                         *)
(* Python indices are 0-based; sequences here are 1-based, so position p   *)
(* of the code is gauss_code[p + 1].  A strand label is the index the      *)
(* strand gets from enumerate(strand_set): label k stands for the letter   *)
(* chr(64 + k).                                                            *)
(***************************************************************************)
EXTENDS Integers, Sequences, FiniteSets, TLC

VARIABLES
    gauss_code,     \* the list of signed integers process_gauss_code returns
    pc,             \* the position of the program
    i,              \* find_strands: the index i (1-based)
    strand_set,     \* find_strands: the set of strand tuples
    knot_dict,      \* the diagram: label |-> [tup, cr]
    seeds,          \* calc: the current tuple drawn from seeds_set (<<>> before the first)
    scd,            \* calc: strand_colors_dict of the current triple (its parts, in key order)
    n_multi,        \* calc: n_multicolored_crossings
    cand,           \* calc: the index of potential_seed in strands
    result,         \* what calc returned ("" while it runs)
    me,             \* the state of one maximally_extend call
    calls,          \* history: calls of maximally_extend and count_multicolored_crossings so far
    covered         \* history: some 4-element seed has coloured every strand

vars == <<gauss_code, pc, i, strand_set, knot_dict, seeds, scd, n_multi, cand,
          result, me, calls, covered>>

(***************************************************************************)
(* Bounds of the model.                                                    *)
(***************************************************************************)
\* Spec: every valid Gauss code with at most MaxCross crossings, and the
\* codes LongCodes(MaxCross + 1) with one crossing more.
MaxCross == 4
\* SpecME and SpecBuild: valid Gauss codes with at most MaxCrossSmall crossings.
MaxCrossSmall == 3
\* SpecBuild: arbitrary (also malformed) codes of at most MaxLen entries of
\* magnitude at most MaxMag.
MaxLen == 4
MaxMag == 2

(***************************************************************************)
(* The inputs.  A valid Gauss code has every magnitude exactly twice, once *)
(* positive and once negative.  The code only compares entries for         *)
(* equality and sign, so the crossings are numbered in the order of their  *)
(* under-passes: the k-th negative entry is -k.                            *)
(***************************************************************************)
Perms(n) == {p \in [1..n -> 1..n] : \A a, b \in 1..n : a # b => p[a] # p[b]}

Rank(S, x) == Cardinality({y \in S : y <= x})

CodeOf(n, N, p) ==
    [x \in 1..(2 * n) |-> IF x \in N THEN 0 - Rank(N, x)
                          ELSE p[Rank((1..(2 * n)) \ N, x)]]

ValidCodes(n) ==
    {CodeOf(n, N, p) : N \in {M \in SUBSET (1..(2 * n)) : Cardinality(M) = n},
                       p \in Perms(n)}

\* the valid codes of n crossings in which each of the first n - 2 strands
\* passes over nothing, the next over one crossing and the last over the
\* rest, ending with the over-pass of crossing 1
LongCodes(n) ==
    {CodeOf(n, (1..(n - 1)) \cup {n + 1}, p) : p \in {q \in Perms(n) : q[n] = 1}}

Entries == {e \in (0 - MaxMag)..MaxMag : e # 0}

AnyCodes == UNION {[1..l -> Entries] : l \in 1..MaxLen}

IsValid(code) ==
    /\ Len(code) % 2 = 0
    /\ \A m \in 1..(Len(code) \div 2) :
          /\ Cardinality({x \in 1..Len(code) : code[x] = m}) = 1
          /\ Cardinality({x \in 1..Len(code) : code[x] = 0 - m}) = 1
    /\ \A x \in 1..Len(code) : code[x] # 0

Range(s) == {s[x] : x \in 1..Len(s)}

(***************************************************************************)
(* find_strands                                                            *)
(***************************************************************************)
\* i = (i + 1) % len(gauss_code)
NextIdx(code, x) == (x % Len(code)) + 1

\* while gauss_code[i] > 0: i = (i + 1) % len(gauss_code)
RECURSIVE SkipOvers(_, _)
SkipOvers(code, x) ==
    IF code[x] > 0 THEN SkipOvers(code, NextIdx(code, x)) ELSE x

\* mutant: lines 87-88 left out, the head of the code is not appended
NewStrandNoWrap(code, b, e) ==
    IF b > e THEN SubSeq(code, b, Len(code)) ELSE SubSeq(code, b, e)

\* the strand from position b through position e, wrapping when b > e
NewStrand(code, b, e) ==
    IF b > e THEN SubSeq(code, b, Len(code)) \o SubSeq(code, 1, e)
    ELSE SubSeq(code, b, e)

\* the strand that begins at the under-pass at position x, and where it ends
StrandEnd(code, x) == SkipOvers(code, NextIdx(code, x))
StrandAt(code, x) == NewStrand(code, x, StrandEnd(code, x))

\* the dictionary find_strands returns for one iteration order of strand_set
StrandsDict(order) == [k \in 1..Len(order) |-> [tup |-> order[k], cr |-> <<>>]]

\* every iteration order of a set: the sequences that list it once each
Orders(S) ==
    {o \in [1..Cardinality(S) -> S] : \A a, b \in 1..Cardinality(S) : a # b => o[a] # o[b]}

(***************************************************************************)
(* find_crossings                                                          *)
(***************************************************************************)
\* the loop over key_inner for one over-entry v; u1, u2 = 0 stands for a
\* local variable that was never assigned
RECURSIVE ScanInner(_, _, _, _)
ScanInner(kd, v, k, st) ==
    IF k > Len(kd) \/ (st.found1 /\ st.found2) THEN st
    ELSE LET t == kd[k].tup
             s1 == IF t[1] = 0 - v
                   THEN [st EXCEPT !.under1 = k, !.found1 = TRUE] ELSE st
             s2 == IF t[Len(t)] = 0 - v
                   THEN [s1 EXCEPT !.under2 = k, !.found2 = TRUE] ELSE s1
         IN ScanInner(kd, v, k + 1, s2)

\* one entry of knot_dict[key_outer][0]; acc = [kd, under1, under2, err]
FC_Entry(acc, ko, v) ==
    IF acc.err \/ v <= 0 THEN acc
    ELSE LET st == ScanInner(acc.kd, v, 1,
                       [under1 |-> acc.under1, under2 |-> acc.under2,
                        found1 |-> FALSE, found2 |-> FALSE])
         IN IF st.under1 = 0 \/ st.under2 = 0
            THEN [acc EXCEPT !.err = TRUE]
            ELSE [kd |-> [acc.kd EXCEPT ![ko].cr = Append(@, <<st.under1, st.under2>>)],
                  under1 |-> st.under1, under2 |-> st.under2, err |-> FALSE]

RECURSIVE FC_Loop(_, _, _)
FC_Loop(acc, ko, e) ==
    IF ko > Len(acc.kd) THEN acc
    ELSE IF e > Len(acc.kd[ko].tup) THEN FC_Loop(acc, ko + 1, 1)
    ELSE FC_Loop(FC_Entry(acc, ko, acc.kd[ko].tup[e]), ko, e + 1)

\* [kd, under1, under2, err]: err stands for the UnboundLocalError of line 144
find_crossings(kd) ==
    FC_Loop([kd |-> kd, under1 |-> 0, under2 |-> 0, err |-> FALSE], 1, 1)

(***************************************************************************)
(* find_color, is_colored                                                  *)
(***************************************************************************)
\* the first key (in key order) whose list holds the strand; 0 stands for ''
RECURSIVE FindColorFrom(_, _, _)
FindColorFrom(strand, parts, s) ==
    IF s > Len(parts) THEN 0
    ELSE IF strand \in Range(parts[s]) THEN s
    ELSE FindColorFrom(strand, parts, s + 1)

find_color(strand, parts) == FindColorFrom(strand, parts, 1)

is_colored(strand, parts) == \E s \in 1..Len(parts) : strand \in Range(parts[s])

(***************************************************************************)
(* maximally_extend, as the state of one call: parts[s] is                 *)
(* strand_colors_dict[seeds[s]], (s, j, c) the position of the three for   *)
(* loops, nc the flag new_coloring.                                        *)
(***************************************************************************)
\* mutant: lines 210-211 record only the first seed in colored_strands
ME_InitFirstSeedOnly(sds) ==
    [seeds |-> sds,
     parts |-> [s \in 1..Len(sds) |-> <<sds[s]>>],
     colored |-> IF sds = <<>> THEN sds ELSE <<sds[1]>>,
     nc |-> TRUE, phase |-> "while",
     s |-> 1, j |-> 1, c |-> 1,
     passes |-> 0, colpasses |-> 0]

ME_Init(sds) ==
    [seeds |-> sds,
     parts |-> [s \in 1..Len(sds) |-> <<sds[s]>>],
     colored |-> sds,
     nc |-> TRUE, phase |-> "while",
     s |-> 1, j |-> 1, c |-> 1,
     passes |-> 0, colpasses |-> 0]

\* the position of the next crossing the for loops visit (s > Len(parts): none)
RECURSIVE ME_Norm(_, _)
ME_Norm(kd, m) ==
    IF m.s > Len(m.parts) THEN m
    ELSE IF m.j > Len(m.parts[m.s]) THEN ME_Norm(kd, [m EXCEPT !.s = @ + 1, !.j = 1, !.c = 1])
    ELSE IF m.c > Len(kd[m.parts[m.s][m.j]].cr) THEN ME_Norm(kd, [m EXCEPT !.j = @ + 1, !.c = 1])
    ELSE m

\* mutant: the elif branch of lines 223-227 left out
ME_CrossingOneWay(m, crossing) ==
    LET a == crossing[1]
        b == crossing[2]
    IN IF a \in Range(m.colored) /\ b \notin Range(m.colored)
       THEN [m EXCEPT !.parts[find_color(a, m.parts)] = Append(@, b),
                      !.colored = Append(@, b), !.nc = TRUE]
       ELSE m

\* mutant: line 218 without its test that crossing[1] is not coloured yet
ME_CrossingRecolours(m, crossing) ==
    LET a == crossing[1]
        b == crossing[2]
    IN IF a \in Range(m.colored)
       THEN [m EXCEPT !.parts[find_color(a, m.parts)] = Append(@, b),
                      !.colored = Append(@, b), !.nc = TRUE]
       ELSE IF a \notin Range(m.colored) /\ b \in Range(m.colored)
       THEN [m EXCEPT !.parts[find_color(b, m.parts)] = Append(@, a),
                      !.colored = Append(@, a), !.nc = TRUE]
       ELSE m

\* the body of the innermost loop for one crossing
ME_Crossing(m, crossing) ==
    LET a == crossing[1]
        b == crossing[2]
    IN IF a \in Range(m.colored) /\ b \notin Range(m.colored)
       THEN [m EXCEPT !.parts[find_color(a, m.parts)] = Append(@, b),
                      !.colored = Append(@, b), !.nc = TRUE]
       ELSE IF a \notin Range(m.colored) /\ b \in Range(m.colored)
       THEN [m EXCEPT !.parts[find_color(b, m.parts)] = Append(@, a),
                      !.colored = Append(@, a), !.nc = TRUE]
       ELSE m

\* while new_coloring: new_coloring = False
ME_WhileStep(m) ==
    IF m.nc THEN [m EXCEPT !.nc = FALSE, !.phase = "for", !.s = 1, !.j = 1, !.c = 1,
                           !.passes = @ + 1]
    ELSE [m EXCEPT !.phase = "done"]

\* one crossing of the pass, or the end of the pass
ME_ForStep(kd, m) ==
    LET n == ME_Norm(kd, m)
    IN IF n.s > Len(n.parts)
       THEN [n EXCEPT !.phase = "while",
                      !.colpasses = IF n.nc THEN @ + 1 ELSE @]
       ELSE [ME_Crossing(n, kd[n.parts[n.s][n.j]].cr[n.c]) EXCEPT !.c = n.c + 1]

ME_Step(kd, m) == IF m.phase = "while" THEN ME_WhileStep(m) ELSE ME_ForStep(kd, m)

RECURSIVE ME_Run(_, _)
ME_Run(kd, m) == IF m.phase = "done" THEN m ELSE ME_Run(kd, ME_Step(kd, m))

\* the call as a whole: the state in which it returns strand_colors_dict
maximally_extend(sds, kd) == ME_Run(kd, ME_Init(sds))

(***************************************************************************)
(* count_multicolored_crossings: one unit per iteration of the three loops *)
(* whose tests pass.                                                       *)
(***************************************************************************)
\* the iterations of the three loops: (colour, index in its list, index of the crossing)
CountPositions(parts, kd) ==
    UNION {UNION {{<<s, j, c>> : c \in 1..Len(kd[parts[s][j]].cr)} :
                  j \in 1..Len(parts[s])} : s \in 1..Len(parts)}

\* mutant: the loops run over every strand of knot_dict
CountOverAllStrands(parts, kd) ==
    Cardinality(
        {p \in UNION {{<<x, c>> : c \in 1..Len(kd[x].cr)} : x \in 1..Len(kd)} :
            LET crossing == kd[p[1]].cr[p[2]]
            IN /\ is_colored(crossing[1], parts)
               /\ is_colored(crossing[2], parts)
               /\ crossing[2] \notin Range(parts[find_color(crossing[1], parts)])})

count_multicolored_crossings(parts, kd) ==
    Cardinality(
        {p \in CountPositions(parts, kd) :
            LET crossing == kd[parts[p[1]][p[2]]].cr[p[3]]
            IN /\ is_colored(crossing[1], parts)
               /\ is_colored(crossing[2], parts)
               /\ crossing[2] \notin Range(parts[find_color(crossing[1], parts)])})

(***************************************************************************)
(* calc: helpers of the loops                                              *)
(***************************************************************************)
\* the letters of letter_list
NLetters == 26

\* the number of seeds of a trial, and the two bounds calc returns
SeedLength == 3

\* itertools.combinations(strands, 3), strands being the labels 1..n in
\* order: whether a tuple follows sds (<<>>: before the first), and which
\* mutant: the return of line 312 inside the loop, only one triple is tried
HasNextCombFirstOnly(sds, n) == sds = <<>> /\ n >= 3

HasNextComb(sds, n) ==
    IF sds = <<>> THEN n >= SeedLength ELSE sds[1] < n - 2

NextComb(sds, n) ==
    IF sds = <<>> THEN <<1, 2, 3>>
    ELSE IF sds[3] < n THEN <<sds[1], sds[2], sds[3] + 1>>
    ELSE IF sds[2] < n - 1 THEN <<sds[1], sds[2] + 1, sds[2] + 2>>
    ELSE <<sds[1] + 1, sds[1] + 2, sds[1] + 3>>

\* colored_set, new_colored_set (only membership is used)
ColoredSet(parts) == UNION {Range(parts[s]) : s \in 1..Len(parts)}

\* mutant: line 301 left out, coloured strands are tried as well
NextPotentialNoSkip(c, parts, n) == c

\* the next potential_seed at or after index c that is not in colored_set
\* (Len(kd) + 1: the loop over strands is over)
RECURSIVE NextPotential(_, _, _)
NextPotential(c, parts, n) ==
    IF c > n \/ c \notin ColoredSet(parts) THEN c
    ELSE NextPotential(c + 1, parts, n)

(***************************************************************************)
(* The program as a state machine                                          *)
(***************************************************************************)
Idle ==
    /\ i = 1
    /\ strand_set = {}
    /\ knot_dict = <<>>
    /\ seeds = <<>>
    /\ scd = <<>>
    /\ n_multi = 0
    /\ cand = 0
    /\ result = ""
    /\ me = ME_Init(<<>>)
    /\ calls = [me |-> 0, cnt |-> 0, ext |-> 0]
    /\ covered = FALSE

Init ==
    /\ gauss_code \in UNION {ValidCodes(n) : n \in 1..MaxCross} \cup LongCodes(MaxCross + 1)
    /\ pc = "find_strands"
    /\ Idle

\* find_strands, line 97: an over-pass is skipped
FS_Skip ==
    /\ pc = "find_strands"
    /\ gauss_code[i] > 0
    /\ i' = NextIdx(gauss_code, i)
    /\ UNCHANGED <<gauss_code, pc, strand_set, knot_dict, seeds, scd, n_multi, cand,
                   result, me, calls, covered>>

\* find_strands, lines 80-95: the strand that begins at i; a repeated strand
\* ends the loop
FS_Strand ==
    /\ pc = "find_strands"
    /\ gauss_code[i] < 0
    /\ i' = StrandEnd(gauss_code, i)
    /\ IF StrandAt(gauss_code, i) \notin strand_set
       THEN /\ strand_set' = strand_set \cup {StrandAt(gauss_code, i)}
            /\ pc' = pc
       ELSE /\ strand_set' = strand_set
            /\ pc' = "enumerate"
    /\ UNCHANGED <<gauss_code, knot_dict, seeds, scd, n_multi, cand, result, me,
                   calls, covered>>

\* find_strands, lines 99-103: the labels follow the iteration order of the
\* set, which is any order
MakeDict ==
    /\ pc = "enumerate"
    /\ IF Cardinality(strand_set) > NLetters
       THEN /\ pc' = "IndexError"
            /\ knot_dict' = knot_dict
       ELSE /\ \E order \in Orders(strand_set) : knot_dict' = StrandsDict(order)
            /\ pc' = "find_crossings"
    /\ UNCHANGED <<gauss_code, i, strand_set, seeds, scd, n_multi, cand, result, me,
                   calls, covered>>

\* find_crossings as a whole; create_knot_dictionary returns to calc
FindCrossings ==
    /\ pc = "find_crossings"
    /\ LET r == find_crossings(knot_dict)
       IN /\ knot_dict' = r.kd
          /\ pc' = IF r.err THEN "UnboundLocalError" ELSE "for_seeds"
    /\ UNCHANGED <<gauss_code, i, strand_set, seeds, scd, n_multi, cand, result, me,
                   calls, covered>>

\* calc, lines 292-299 (and 311 when no strand is left to try): one triple
ForSeeds ==
    /\ pc = "for_seeds"
    /\ HasNextComb(seeds, Len(knot_dict))
    /\ seeds' = NextComb(seeds, Len(knot_dict))
    /\ me' = maximally_extend(seeds', knot_dict)
    /\ scd' = me'.parts
    /\ calls' = [calls EXCEPT !.me = @ + 1, !.cnt = @ + 1]
    /\ LET cnt == count_multicolored_crossings(scd', knot_dict)
           first == NextPotential(1, scd', Len(knot_dict))
       IN IF cnt > 0 /\ first <= Len(knot_dict)
          THEN /\ n_multi' = cnt
               /\ cand' = first
               /\ pc' = "for_potential"
          ELSE /\ n_multi' = 0
               /\ cand' = 0
               /\ pc' = pc
    /\ UNCHANGED <<gauss_code, i, strand_set, knot_dict, result, covered>>

\* mutant: line 310 records the bound and goes on with the loops
ForPotentialKeepsSearching ==
    /\ pc = "for_potential"
    /\ me' = maximally_extend(Append(seeds, cand), knot_dict)
    /\ LET full == ColoredSet(me'.parts) = 1..Len(knot_dict)
           nxt == NextPotential(cand + 1, scd, Len(knot_dict))
       IN /\ calls' = [calls EXCEPT !.me = @ + 1, !.ext = @ + 1]
          /\ covered' = (covered \/ full)
          /\ result' = IF full THEN "28" ELSE result
          /\ IF nxt <= Len(knot_dict)
             THEN /\ cand' = nxt
                  /\ UNCHANGED <<pc, n_multi>>
             ELSE /\ cand' = 0
                  /\ n_multi' = 0
                  /\ pc' = "for_seeds"
    /\ UNCHANGED <<gauss_code, i, strand_set, knot_dict, seeds, scd>>

\* calc, lines 300-311: one potential seed that is not coloured
ForPotential ==
    /\ pc = "for_potential"
    /\ me' = maximally_extend(Append(seeds, cand), knot_dict)
    /\ LET full == ColoredSet(me'.parts) = 1..Len(knot_dict)
           nxt == NextPotential(cand + 1, scd, Len(knot_dict))
       IN /\ calls' = [calls EXCEPT !.me = @ + 1, !.ext = @ + 1]
          /\ covered' = (covered \/ full)
          /\ IF full
             THEN /\ result' = "28"
                  /\ pc' = "done"
                  /\ UNCHANGED <<cand, n_multi>>
             ELSE IF nxt <= Len(knot_dict)
             THEN /\ cand' = nxt
                  /\ UNCHANGED <<result, pc, n_multi>>
             ELSE /\ cand' = 0
                  /\ n_multi' = 0
                  /\ pc' = "for_seeds"
                  /\ result' = result
    /\ UNCHANGED <<gauss_code, i, strand_set, knot_dict, seeds, scd>>

\* calc, line 312
Return32 ==
    /\ pc = "for_seeds"
    /\ ~HasNextComb(seeds, Len(knot_dict))
    /\ result' = "32"
    /\ pc' = "done"
    /\ UNCHANGED <<gauss_code, i, strand_set, knot_dict, seeds, scd, n_multi, cand,
                   me, calls, covered>>

Next ==
    \/ FS_Skip
    \/ FS_Strand
    \/ MakeDict
    \/ FindCrossings
    \/ ForSeeds
    \/ ForPotential
    \/ Return32

Spec == Init /\ [][Next]_vars

(***************************************************************************)
(* SpecBuild: create_knot_dictionary alone, on arbitrary codes of at most  *)
(* MaxLen entries (malformed ones included) and on the valid codes with at *)
(* most MaxCrossSmall crossings.  A code without an under-pass keeps       *)
(* find_strands in its loop for ever.                                      *)
(***************************************************************************)
InitBuild ==
    /\ gauss_code \in AnyCodes \cup UNION {ValidCodes(n) : n \in 1..MaxCrossSmall}
    /\ pc = "find_strands"
    /\ Idle

NextBuild ==
    \/ FS_Skip
    \/ FS_Strand
    \/ MakeDict
    \/ FindCrossings

SpecBuild == InitBuild /\ [][NextBuild]_vars

(***************************************************************************)
(* SpecME: one call of maximally_extend, step by step, followed by         *)
(* count_multicolored_crossings on what it returns.  The diagram is the    *)
(* one create_knot_dictionary builds when the set is iterated in the order *)
(* the strands were added; the seeds are every tuple of distinct labels,   *)
(* in every order.                                                         *)
(***************************************************************************)
\* find_strands, lines 78-97, when the set is iterated in insertion order
RECURSIVE FS_Run(_, _, _)
FS_Run(code, x, acc) ==
    IF code[x] > 0 THEN FS_Run(code, NextIdx(code, x), acc)
    ELSE IF StrandAt(code, x) \in Range(acc) THEN acc
    ELSE FS_Run(code, StrandEnd(code, x), Append(acc, StrandAt(code, x)))

\* create_knot_dictionary for that order
create_knot_dictionary(code) == find_crossings(StrandsDict(FS_Run(code, 1, <<>>))).kd

SeedTuples(n) ==
    UNION {{t \in [1..k -> 1..n] : \A a, b \in 1..k : a # b => t[a] # t[b]} : k \in 1..n}

InitME ==
    /\ gauss_code \in UNION {ValidCodes(n) : n \in 1..MaxCrossSmall}
    /\ pc = "maximally_extend"
    /\ i = 1
    /\ strand_set = {}
    /\ knot_dict = create_knot_dictionary(gauss_code)
    /\ seeds \in SeedTuples(Len(knot_dict))
    /\ scd = <<>>
    /\ n_multi = 0
    /\ cand = 0
    /\ result = ""
    /\ me = ME_Init(seeds)
    /\ calls = [me |-> 1, cnt |-> 0, ext |-> 0]
    /\ covered = FALSE

ME_Unchanged ==
    UNCHANGED <<gauss_code, pc, i, strand_set, knot_dict, seeds, scd, n_multi, cand,
                result, calls, covered>>

\* line 213-214: a new pass begins
ME_While ==
    /\ pc = "maximally_extend"
    /\ me.phase = "while"
    /\ me.nc
    /\ me' = ME_Step(knot_dict, me)
    /\ ME_Unchanged

\* lines 217-227: the next crossing of the pass
ME_Visit ==
    /\ pc = "maximally_extend"
    /\ me.phase = "for"
    /\ ME_Norm(knot_dict, me).s <= Len(me.parts)
    /\ me' = ME_Step(knot_dict, me)
    /\ ME_Unchanged

\* lines 215-216: the lists are exhausted, the pass is over
ME_EndFor ==
    /\ pc = "maximally_extend"
    /\ me.phase = "for"
    /\ ME_Norm(knot_dict, me).s > Len(me.parts)
    /\ me' = ME_Step(knot_dict, me)
    /\ ME_Unchanged

\* lines 213, 228: no new colouring in the last pass
ME_Return ==
    /\ pc = "maximally_extend"
    /\ me.phase = "while"
    /\ ~me.nc
    /\ me' = ME_Step(knot_dict, me)
    /\ scd' = me.parts
    /\ pc' = "count"
    /\ UNCHANGED <<gauss_code, i, strand_set, knot_dict, seeds, n_multi, cand,
                   result, calls, covered>>

\* count_multicolored_crossings on the returned dictionary
Count ==
    /\ pc = "count"
    /\ n_multi' = count_multicolored_crossings(scd, knot_dict)
    /\ calls' = [calls EXCEPT !.cnt = @ + 1]
    /\ pc' = "counted"
    /\ UNCHANGED <<gauss_code, i, strand_set, knot_dict, seeds, scd, cand, result,
                   me, covered>>

NextME ==
    \/ ME_While
    \/ ME_Visit
    \/ ME_EndFor
    \/ ME_Return
    \/ Count

SpecME == InitME /\ [][NextME]_vars

(***************************************************************************)
(* calc as a function of the diagram: the loops of lines 292-312 unrolled  *)
(* from the same helpers the actions use.                                  *)
(***************************************************************************)
\* lines 300-310 from the potential seed at index c on: some extension
\* colours every strand
RECURSIVE SomeExtensionCovers(_, _, _, _)
SomeExtensionCovers(kd, sds, parts, c) ==
    IF c > Len(kd) THEN FALSE
    ELSE IF ColoredSet(maximally_extend(Append(sds, c), kd).parts) = 1..Len(kd) THEN TRUE
    ELSE SomeExtensionCovers(kd, sds, parts, NextPotential(c + 1, parts, Len(kd)))

\* lines 292-312 from the tuple after sds on
RECURSIVE CalcFrom(_, _)
CalcFrom(kd, sds) ==
    IF ~HasNextComb(sds, Len(kd)) THEN "32"
    ELSE LET t == NextComb(sds, Len(kd))
             parts == maximally_extend(t, kd).parts
         IN IF /\ count_multicolored_crossings(parts, kd) > 0
               /\ SomeExtensionCovers(kd, t, parts, NextPotential(1, parts, Len(kd)))
            THEN "28"
            ELSE CalcFrom(kd, t)

CalcResult(kd) == CalcFrom(kd, <<>>)

(***************************************************************************)
(* The claims                                                              *)
(***************************************************************************)
Strands == 1..Len(knot_dict)

\* the 3-element subsets of the strand labels, as increasing tuples
Triples == {t \in Strands \X Strands \X Strands : t[1] < t[2] /\ t[2] < t[3]}

\* (i), (ii) and (iii) of C1 for the subset S (as a tuple), whose closure is
\* parts, and some strand t
Qualifies(S, parts) ==
    /\ count_multicolored_crossings(parts, knot_dict) > 0
    /\ \E t \in Strands \ ColoredSet(parts) :
          ColoredSet(maximally_extend(Append(S, t), knot_dict).parts) = Strands

\* C1: calc returns "28" exactly when some 3-element subset S of the strand
\* labels and some strand t are such that the closure of S has a conflict
\* count > 0, t is not coloured by it, and the closure of S + t colours every
\* strand; otherwise it returns "32", and it returns nothing else.
C1_Returns28Iff ==
    pc = "done" =>
        /\ result \in {"28", "32"}
        /\ (result = "28") <=>
              (\E S \in Triples : Qualifies(S, maximally_extend(S, knot_dict).parts))

\* C1 witness: both outcomes on a diagram with a strand outside the triple:
\* here a "28" found after at least one triple that did not qualify.
C1_Witness ==
    /\ pc = "done"
    /\ result = "28"
    /\ seeds # <<1, 2, 3>>

\* C2: once a 4-element seed has coloured every strand, calc has returned
\* "28": the program is at its end, and no step calls maximally_extend or
\* count_multicolored_crossings any more.
C2_StopsAtFirstSuccess ==
    /\ [](covered => (pc = "done" /\ result = "28"))
    /\ [][covered => calls' = calls]_vars

\* C2 witness: a success while potential seeds and seed triples are left.
C2_Witness ==
    /\ covered
    /\ pc = "done"
    /\ cand < Len(knot_dict)
    /\ HasNextComb(seeds, Len(knot_dict))

\* C3: whatever order the strand set is iterated in (the order that fixes
\* the labels, the order of the triples and the order of the seeds in
\* them), calc returns what it returns for the order of insertion.
C3_LabelOrderIrrelevant ==
    pc = "done" => result = CalcResult(create_knot_dictionary(gauss_code))

\* C3 witness: a run that ended with "28" under labels other than those of
\* the insertion order.
C3_Witness ==
    /\ pc = "done"
    /\ result = "28"
    /\ knot_dict # create_knot_dictionary(gauss_code)

\* C7 as claimed: calc does not return a bound for a diagram with fewer than
\* 3 strands.
C7_NoBoundBelowThreeStrands ==
    pc = "done" => Len(knot_dict) >= SeedLength

Binomial3(n) == (n * (n - 1) * (n - 2)) \div 6

\* a step of the search returns or is one more call of maximally_extend
SearchProgress ==
    pc \in {"for_seeds", "for_potential"} => (pc' = "done" \/ calls'.me = calls.me + 1)

\* C10: a call of maximally_extend on k seeds makes at most n - k passes that
\* colour a strand (and one more that colours none); calc makes at most
\* C(n,3) * n extension trials; and the search cannot run for ever: every
\* step of its loops either returns or is one more of at most
\* C(n,3) * (n + 1) calls of maximally_extend.
C10_Terminates ==
    /\ [](me.seeds # <<>> =>
            /\ me.colpasses <= Len(knot_dict) - Len(me.seeds)
            /\ me.passes <= me.colpasses + 1)
    /\ [](/\ calls.ext <= Binomial3(Len(knot_dict)) * Len(knot_dict)
          /\ calls.me <= Binomial3(Len(knot_dict)) * (Len(knot_dict) + 1))
    /\ [][SearchProgress]_vars

\* C10 witness: a call that needed a colouring pass, in a run with an
\* extension trial, that returned.
C10_Witness ==
    /\ pc = "done"
    /\ me.colpasses >= 1
    /\ calls.ext >= 2

(***************************************************************************)
(* Claims about maximally_extend and count_multicolored_crossings (SpecME) *)
(***************************************************************************)
RECURSIVE SortedSeq(_)
SortedSeq(S) ==
    IF S = {} THEN <<>>
    ELSE LET mn == CHOOSE x \in S : \A y \in S : x <= y
         IN <<mn>> \o SortedSeq(S \ {mn})

\* the colour of every strand: the seed of its part, 0 when it has none
PartitionOf(parts, sds) ==
    [x \in Strands |-> IF find_color(x, parts) = 0 THEN 0 ELSE sds[find_color(x, parts)]]

\* the least set of strands that holds C and, with a strand s and one
\* under-strand of a crossing s is over, the other under-strand
RECURSIVE Closure(_)
Closure(C) ==
    LET new == {x \in Strands \ C :
                  \E s \in C : \E c \in 1..Len(knot_dict[s].cr) :
                     \/ knot_dict[s].cr[c][1] \in C /\ x = knot_dict[s].cr[c][2]
                     \/ knot_dict[s].cr[c][2] \in C /\ x = knot_dict[s].cr[c][1]}
    IN IF new = {} THEN C ELSE Closure(C \cup new)

\* C4 as claimed: the partition a call returns is the one the call on the
\* same seeds in increasing order returns.
C4_PartitionOrderIndependent ==
    pc = "count" =>
        PartitionOf(scd, seeds)
          = PartitionOf(maximally_extend(SortedSeq(Range(seeds)), knot_dict).parts,
                        SortedSeq(Range(seeds)))

\* C4 as amended: the set of coloured strands a call returns depends on the
\* set of seeds only: it is the closure of the seeds under the propagation
\* rule.
C4_ColouredSetOrderIndependent ==
    pc = "count" => ColoredSet(scd) = Closure(Range(seeds))

\* C4 witness: a call whose partition differs from that of the increasing
\* order, after it coloured a strand.
C4_Witness ==
    /\ pc = "count"
    /\ ColoredSet(scd) # Range(seeds)
    /\ ~C4_PartitionOrderIndependent

\* a crossing (over-strand x, index c) with both under-strands coloured, in
\* different parts
Conflict(parts, x, c) ==
    LET crossing == knot_dict[x].cr[c]
    IN /\ find_color(crossing[1], parts) # 0
       /\ find_color(crossing[2], parts) # 0
       /\ find_color(crossing[1], parts) # find_color(crossing[2], parts)

ConflictsOver(parts, over) ==
    Cardinality(UNION {{<<x, c>> : c \in {d \in 1..Len(knot_dict[x].cr) : Conflict(parts, x, d)}} :
                       x \in over})

\* C5 as claimed: the count is the number of conflicting crossings of the
\* whole diagram, whether the over-strand is coloured or not.
C5_CountsAllCrossings ==
    pc = "counted" => n_multi = ConflictsOver(scd, Strands)

\* C5 as amended: the count is the number of conflicting crossings whose
\* over-strand is coloured.
C5_CountsColouredOverStrands ==
    pc = "counted" => n_multi = ConflictsOver(scd, ColoredSet(scd))

\* C5 witness: a count above 0 on a diagram with an uncoloured strand, whose
\* crossings the loops do not visit.
C5_Witness ==
    /\ pc = "counted"
    /\ n_multi > 0
    /\ ColoredSet(scd) # Strands

\* the parts are pairwise disjoint and without repetition, each seed first
\* in its own part
PartsDisjoint(m) ==
    /\ \A s \in 1..Len(m.parts) : m.parts[s][1] = m.seeds[s]
    /\ \A s, t \in 1..Len(m.parts) :
          \A j \in 1..Len(m.parts[s]) : \A k \in 1..Len(m.parts[t]) :
             (m.parts[s][j] = m.parts[t][k]) => (s = t /\ j = k)

\* a step only appends to the parts
PartsOnlyGrow ==
    /\ Len(me'.parts) = Len(me.parts)
    /\ \A s \in 1..Len(me.parts) :
          /\ Len(me'.parts[s]) >= Len(me.parts[s])
          /\ SubSeq(me'.parts[s], 1, Len(me.parts[s])) = me.parts[s]

\* C9: in every state of a call the parts are pairwise disjoint, each seed
\* is in its own part, and a step only appends to the parts: a strand in a
\* part stays there and enters no other part, nor the same part again.
C9_PartsStayDisjoint ==
    /\ [](PartsDisjoint(me))
    /\ [][PartsOnlyGrow]_vars

\* C9 witness: a pass under way after a strand was coloured from a crossing
\* whose other under-strand was coloured in the same call.
C9_Witness ==
    /\ me.phase = "for"
    /\ Len(me.colored) >= Len(me.seeds) + 2

(***************************************************************************)
(* Claims about find_strands and find_crossings (SpecBuild)                *)
(***************************************************************************)
\* the strands (and places in them) that hold the entry at position x; in a
\* valid code no value occurs twice, so these are the strands covering x
Covering(x) ==
    UNION {{<<t, y>> : y \in {z \in 1..Len(t) : t[z] = gauss_code[x]}} : t \in strand_set}

\* C8 as claimed: every position of a valid code is in exactly one strand.
C8_EveryPositionOnce ==
    (pc = "enumerate" /\ IsValid(gauss_code)) =>
        \A x \in 1..Len(gauss_code) : Cardinality(Covering(x)) = 1

\* C8 as amended: in a valid code with at least two crossings every
\* over-pass is in exactly one strand, and every under-pass in exactly two:
\* it ends one and begins the other.  With one crossing the only strand is
\* the under-pass alone.
C8_OversOnceUndersTwice ==
    (pc = "enumerate" /\ IsValid(gauss_code)) =>
        IF Len(gauss_code) = 2
        THEN strand_set = {<<0 - 1>>}
        ELSE \A x \in 1..Len(gauss_code) :
                IF gauss_code[x] > 0
                THEN /\ Cardinality(Covering(x)) = 1
                     /\ \A p \in Covering(x) : 1 < p[2] /\ p[2] < Len(p[1])
                ELSE /\ Cardinality(Covering(x)) = 2
                     /\ \E p \in Covering(x) : p[2] = 1
                     /\ \E p \in Covering(x) : p[2] = Len(p[1])

\* C8 witness: the strands of a valid code of three crossings that begins
\* in the middle of a strand, so that one strand wraps past the end.
C8_Witness ==
    /\ pc = "enumerate"
    /\ IsValid(gauss_code)
    /\ Len(gauss_code) = 6
    /\ gauss_code[1] > 0

\* an over-entry of some strand for which no strand begins, or none ends,
\* with its negation
UnmatchedOver ==
    \E k \in 1..Len(knot_dict) : \E e \in 1..Len(knot_dict[k].tup) :
        LET v == knot_dict[k].tup[e]
        IN /\ v > 0
           /\ \/ \A t \in 1..Len(knot_dict) : knot_dict[t].tup[1] # 0 - v
              \/ \A t \in 1..Len(knot_dict) :
                    knot_dict[t].tup[Len(knot_dict[t].tup)] # 0 - v

\* C6 as claimed: find_crossings returns no diagram when an over-entry has
\* no matching under-strand.
C6_UnmatchedOverIsAnError ==
    pc = "for_seeds" => ~UnmatchedOver

=============================================================================
